---- MODULE Spec2Model ----
(***************************************************************************)
(* Model of the tournament bot's notification cycle:                       *)
(*   check_tournaments -> save_tournaments_async -> DetailWorker           *)
(*   .enrich_tournaments -> fetch_registration_details (RateLimiter)       *)
(*   -> save_tournaments_to_s3 -> Discord channel.send.                    *)
(*                                                                         *)
(* Time.  datetime.now() is the variable now, counted in half days (an     *)
(* even value is midnight); a calendar date d is the instant 2*d.          *)
(* time.time() is the variable clock, counted in seconds.                  *)
(*                                                                         *)
(* Lists of tournaments that alias the dictionaries of the candidate list  *)
(* (new_tournaments, closing_soon, ...) are sequences of indices into      *)
(* tournaments, so a later mutation of a dictionary is seen through them.  *)
(***************************************************************************)
EXTENDS Integers, Sequences, FiniteSets, TLC

\* ---------------------------------------------------------------- constants
DEFAULT_CAPACITY == 72
FILLING_THRESHOLD == 75
requests_per_minute == 10
max_concurrent == 2
max_workers == 2
batch_size == 5
\* date = "N/A" of a listing entry, closing_date = None of a detail result
NA == -1
None == -1

min_interval == 60 \div requests_per_minute
\* shortest period of the task loop: jittered_hours(12) is at least 9 hours
CyclePeriod == 9 * 3600

\* ------------------------------------------------------------------- bounds
MaxCycles == 2      \* cycles of check_tournaments in one behaviour
MaxItems == 6       \* length of the listing in the scheduling scenario
MaxNow == 3         \* datetime.now() ranges over 0..MaxNow half days
MaxClock == 12      \* no thread calls wait_if_needed again after this second

VARIABLES
    scenario,             \* the family of inputs of this behaviour (never changes)
    now,                  \* datetime.now(), half days
    clock,                \* time.time(), seconds
    cycle,                \* iterations of check_tournaments started
    s3,                   \* the object tournaments.json: [exists, body]
    pc,                   \* where check_tournaments / save_tournaments_async stands
    tournaments,          \* the candidate list of this cycle (mutated in place)
    saved_tournaments,    \* what load_tournaments_from_s3 returned
    new_tournaments, registration_opened, closing_soon, filling_up,
    eligible_tournaments, \* <<index, should_check_closing, should_check_filling>>
    i,                    \* offset of the current batch
    tasks,                \* the coroutines of the current batch
    j,                    \* the task the loop of line 106 awaits
    sleep_until,          \* end of asyncio.sleep(2.0)
    semaphore,            \* free slots of DetailWorker.semaphore
    last_request_time,    \* RateLimiter.last_request_time
    n,                    \* position in the notifications to send
    sent,                 \* embeds sent to the channel in this cycle: <<category, index>>
    \* history variables
    listing,              \* the candidate list as the lister returned it
    results,              \* per candidate, what its detail fetch returned
    should_check,         \* per candidate, the two flags of the eligibility loop
    prev,                 \* inputs and save outcome of the previous cycle
    invoked,              \* per candidate, the calls of fetch_registration_details
    save_calls,           \* the bodies handed to put_object in this cycle
    prev_permit,          \* last_request_time before the latest permit (0: no permit
                          \* yet since the cycle started)
    closing_seen, filling_seen  \* identities whose flag was true at the end of a cycle

vars == <<scenario, now, clock, cycle, s3, pc, tournaments, saved_tournaments,
          new_tournaments, registration_opened, closing_soon, filling_up,
          eligible_tournaments, i, tasks, j, sleep_until, semaphore,
          last_request_time, n, sent, listing, results, should_check, prev,
          prev_permit, closing_seen, filling_seen, save_calls, invoked>>

\* ------------------------------------------------------------------ helpers
Max(a, b) == IF a >= b THEN a ELSE b
Min(a, b) == IF a <= b THEN a ELSE b
Indices(s) == [k \in 1..Len(s) |-> k]
Range(s) == {s[k] : k \in 1..Len(s)}

\* calendar days from the day of the instant t to the date
DaysCalendar(date, t) == date - (t \div 2)
\* (date_obj - datetime.now()).days: whole days, rounded down (timedelta.days)
DaysUntil(date, t) == (2 * date - t) \div 2

\* a listing entry as parse_tournament_page builds it; the keys a listing entry
\* lacks are modelled by the defaults the code reads them with
Tournament(name, date, url, open, registrants, capacity) ==
    [name |-> name, date |-> date, location |-> "loc", url |-> url,
     registration_open |-> open, registrants |-> registrants, capacity |-> capacity,
     closing_text |-> "N/A", closing_date |-> None,
     registration_closing_sent |-> FALSE, registration_filling_sent |-> FALSE]

\* the dictionary fetch_registration_details returns
Details(closing_date, registrants, capacity) ==
    [kind |-> "ok",
     closing_text |-> IF closing_date = None THEN "N/A" ELSE "closes",
     closing_date |-> closing_date, registrants |-> registrants, capacity |-> capacity]
Neutral == Details(None, 0, 0)
Raised == [Neutral EXCEPT !.kind = "raise"]
Unfetched == [Neutral EXCEPT !.kind = "unfetched"]

\* ------------------------------------------------------------- persistence
\* json.dumps(..., default=serialize): a datetime becomes its ISO string, None
\* becomes null; json.loads gives the strings back, not datetimes
Isoformat(d) == IF d = None THEN "null" ELSE ToString(d)
\* (variant: only the new tournaments are written)
SerializeNew(ts) ==
    [k \in 1..Len(new_tournaments) |->
        [ts[new_tournaments[k]] EXCEPT !.closing_date = Isoformat(@)]]
\* (variant: the tournaments of the loaded snapshot that are no longer listed
\* are kept)
SerializeMerged(ts) ==
    LET Dropped(old) ==
            ~ \E k \in 1..Len(ts) :
                /\ ts[k].name = old.name
                /\ ts[k].date = old.date
                /\ ts[k].location = old.location
    IN  [k \in 1..Len(ts) |-> [ts[k] EXCEPT !.closing_date = Isoformat(@)]]
        \o SelectSeq(saved_tournaments, Dropped)
Serialize(ts) == [k \in 1..Len(ts) |-> [ts[k] EXCEPT !.closing_date = Isoformat(@)]]
NoSnapshot == [exists |-> FALSE, body |-> <<>>]

\* ------------------------------------------------------------------ inputs
Dates == {NA, 15, 16}
ListingCounts == {<<40, 50>>, <<54, 0>>, <<35, 0>>}
DetailCounts == {<<45, 0>>, <<54, 0>>, <<45, 60>>}
Busy(name) == Tournament(name, 15, "u", TRUE, 40, 50)
Hit == Details(8, 45, 60)

ItemListings ==
    {<<Tournament(1, d, u, o, c[1], c[2])>> :
        d \in Dates, u \in {"N/A", "u"}, o \in BOOLEAN, c \in ListingCounts}
PairListings ==
    LET A == {Busy(1), [Busy(1) EXCEPT !.registration_open = FALSE]}
        B == {Busy(2), [Busy(2) EXCEPT !.registration_open = FALSE]}
    IN  {<<a>> : a \in A} \cup {<<b>> : b \in B} \cup {<<a, b>> : a \in A, b \in B}
SchedListings == {[k \in 1..MaxItems |-> Busy(k)]}

\* what the lister may return in cycle number c (0 is the first); the empty
\* list is a failed listing fetch
Listings(sc, c) ==
    {<<>>} \cup
    CASE sc = "sched" -> SchedListings
      [] sc = "cycles" -> PairListings
      [] sc = "item" -> IF c = 0 THEN ItemListings ELSE {}

\* what the detail fetch of tournament t may give; in the scheduling scenario
\* it is the fetch of the second tournament that may raise
Outcomes(sc, t) ==
    CASE sc = "item" ->
            {Raised, Neutral} \cup
            {Details(cd, c[1], c[2]) : cd \in {None, 8}, c \in DetailCounts}
      [] sc = "cycles" -> {Raised, Hit}
      [] sc = "sched" -> IF t.name = 2 THEN {Raised, Hit} ELSE {Hit}
AllOutcomes == UNION {Outcomes(sc, Busy(2)) : sc \in {"sched", "cycles", "item"}}

InitSnapshots(sc) ==
    {NoSnapshot} \cup
    IF sc = "item"
    THEN {[exists |-> TRUE,
           body |-> Serialize(<<[Tournament(1, 15, "u", o, 40, 50) EXCEPT
                                   !.registration_closing_sent = c,
                                   !.registration_filling_sent = f]>>)] :
            o \in BOOLEAN, c \in BOOLEAN, f \in BOOLEAN}
    ELSE {}

StartNows(sc) == IF sc = "item" THEN {0} ELSE {MaxNow}
\* seconds a sleep or a request may overrun
Lag(sc) == IF sc = "sched" THEN 1 ELSE 0

\* --------------------------------------------------- save_tournaments_async
Identity(t) == <<t.name, t.date, t.location>>
SameTournament(t, saved) ==
    t.name = saved.name /\ t.date = saved.date /\ t.location = saved.location

\* next((saved for saved in saved_tournaments if ...), None), as an index; 0 is None
MatchingSaved(t, saved) ==
    LET M == {m \in 1..Len(saved) : SameTournament(t, saved[m])}
    IN  IF M = {} THEN 0 ELSE CHOOSE m \in M : \A x \in M : m <= x

\* (variant: a tournament is matched by its name alone)
NewTournamentsByName(ts, saved) ==
    LET IsNew(k) == ~ \E m \in 1..Len(saved) : ts[k].name = saved[m].name
    IN  SelectSeq(Indices(ts), IsNew)
NewTournaments(ts, saved) ==
    LET IsNew(k) == ~ \E m \in 1..Len(saved) : SameTournament(ts[k], saved[m])
    IN  SelectSeq(Indices(ts), IsNew)

\* (variant: the flags start as False in every cycle)
SeedFlagsFresh(t, saved) ==
    [t EXCEPT !.registration_closing_sent = FALSE,
              !.registration_filling_sent = FALSE]
SeedFlags(t, saved) ==
    LET m == MatchingSaved(t, saved)
    IN  IF m # 0
        THEN [t EXCEPT !.registration_closing_sent = saved[m].registration_closing_sent,
                       !.registration_filling_sent = saved[m].registration_filling_sent]
        ELSE [t EXCEPT !.registration_closing_sent = FALSE,
                       !.registration_filling_sent = FALSE]

\* (variant: a tournament without a saved match counts as closed before)
RegistrationOpenedUnmatched(ts, saved) ==
    LET Opened(k) ==
            LET m == MatchingSaved(ts[k], saved)
            IN  ts[k].registration_open /\ (m = 0 \/ ~ saved[m].registration_open)
    IN  SelectSeq(Indices(ts), Opened)
RegistrationOpened(ts, saved) ==
    LET Opened(k) ==
            LET m == MatchingSaved(ts[k], saved)
            IN  m # 0 /\ ~ saved[m].registration_open /\ ts[k].registration_open
    IN  SelectSeq(Indices(ts), Opened)

\* ------------------------------------------- DetailWorker.enrich_tournaments
\* (registrants / capacity) * 100 >= pct: for these integers the float
\* comparison is exact, so it is the integer comparison
FillAtLeast(registrants, capacity, pct) == registrants * 100 >= pct * capacity

ShouldCheckClosing(t, tnow) ==
    /\ t.date # NA
    /\ DaysUntil(t.date, tnow) <= 14
    /\ ~ t.registration_closing_sent

ShouldCheckFilling(t) ==
    LET tournament_capacity == IF t.capacity # 0 THEN t.capacity ELSE DEFAULT_CAPACITY
    IN  /\ tournament_capacity > 0
        /\ FillAtLeast(t.registrants, tournament_capacity, 50)
        /\ ~ t.registration_filling_sent

ShouldCheck(ts, tnow) ==
    [k \in 1..Len(ts) |-> [closing |-> ShouldCheckClosing(ts[k], tnow),
                           filling |-> ShouldCheckFilling(ts[k])]]

\* (variant: registration_open is not looked at)
EligibleTournamentsAnyOpen(ts, tnow) ==
    LET checks == ShouldCheck(ts, tnow)
        IsEligible(k) ==
            /\ ts[k].url # "N/A"
            /\ (checks[k].closing \/ checks[k].filling)
        picked == SelectSeq(Indices(ts), IsEligible)
    IN  [e \in 1..Len(picked) |->
            <<picked[e], checks[picked[e]].closing, checks[picked[e]].filling>>]
\* (variant: the url is not looked at)
EligibleTournamentsAnyUrl(ts, tnow) ==
    LET checks == ShouldCheck(ts, tnow)
        IsEligible(k) ==
            /\ ts[k].registration_open
            /\ (checks[k].closing \/ checks[k].filling)
        picked == SelectSeq(Indices(ts), IsEligible)
    IN  [e \in 1..Len(picked) |->
            <<picked[e], checks[picked[e]].closing, checks[picked[e]].filling>>]
\* (variant: a tournament is appended once for each check it needs)
EligibleTournamentsTwice(ts, tnow) ==
    LET checks == ShouldCheck(ts, tnow)
        IsEligible(k) ==
            /\ ts[k].url # "N/A"
            /\ ts[k].registration_open
            /\ (checks[k].closing \/ checks[k].filling)
        Both(k) == IsEligible(k) /\ checks[k].closing /\ checks[k].filling
        picked == SelectSeq(Indices(ts), IsEligible) \o SelectSeq(Indices(ts), Both)
    IN  [e \in 1..Len(picked) |->
            <<picked[e], checks[picked[e]].closing, checks[picked[e]].filling>>]
EligibleTournaments(ts, tnow) ==
    LET checks == ShouldCheck(ts, tnow)
        IsEligible(k) ==
            /\ ts[k].url # "N/A"
            /\ ts[k].registration_open
            /\ (checks[k].closing \/ checks[k].filling)
        picked == SelectSeq(Indices(ts), IsEligible)
    IN  [e \in 1..Len(picked) |->
            <<picked[e], checks[picked[e]].closing, checks[picked[e]].filling>>]

\* tournament.update(details)
Update(t, d) ==
    [t EXCEPT !.closing_text = d.closing_text, !.closing_date = d.closing_date,
              !.registrants = d.registrants, !.capacity = d.capacity]

\* (variant: 7 days left count as closing soon)
ClosingSoonInclusive(check_closing, d, tnow) ==
    /\ check_closing
    /\ d.closing_date # None
    /\ DaysUntil(d.closing_date, tnow) <= 7
ClosingSoon(check_closing, d, tnow) ==
    /\ check_closing
    /\ d.closing_date # None
    /\ DaysUntil(d.closing_date, tnow) < 7

\* details.get("capacity", tournament.get("capacity", 0)) or DEFAULT_CAPACITY:
\* the dictionary of fetch_registration_details always has the key "capacity",
\* so the default of get is never used
EffectiveCapacity(d, t) == IF d.capacity # 0 THEN d.capacity ELSE DEFAULT_CAPACITY

\* max(details.get("registrants", 0), tournament.get("registrants", 0)), read
\* after tournament.update(details)
EffectiveRegistrants(d, t) == Max(d.registrants, t.registrants)

\* (variant: the 50% of the eligibility loop is used as the threshold)
IsFillingUpHalf(registrants, capacity) ==
    capacity > 0 /\ FillAtLeast(registrants, capacity, 50)
IsFillingUp(registrants, capacity) ==
    capacity > 0 /\ FillAtLeast(registrants, capacity, FILLING_THRESHOLD)

\* (variant: the tournament is appended to the lists, the flags are not set)
PostProcessUnflagged(t, d, check_closing, check_filling, tnow) ==
    LET t1 == Update(t, d)
    IN  [tournament |-> t1,
         closing |-> ClosingSoon(check_closing, d, tnow),
         filling |-> check_filling /\ IsFillingUp(EffectiveRegistrants(d, t1),
                                                   EffectiveCapacity(d, t1))]
\* (variant: line 116 is indented one level less, so the closing flag is set
\* whenever a closing date was found)
PostProcessDedented(t, d, check_closing, check_filling, tnow) ==
    LET t1 == Update(t, d)
        closing == ClosingSoon(check_closing, d, tnow)
        t2 == IF check_closing /\ d.closing_date # None
              THEN [t1 EXCEPT !.registration_closing_sent = TRUE] ELSE t1
        capacity == EffectiveCapacity(d, t2)
        registrants == EffectiveRegistrants(d, t2)
        filling == check_filling /\ IsFillingUp(registrants, capacity)
        t3 == IF filling
              THEN [t2 EXCEPT !.registrants = registrants, !.capacity = capacity,
                              !.registration_filling_sent = TRUE]
              ELSE t2
    IN  [tournament |-> t3, closing |-> closing, filling |-> filling]
\* lines 109-135 for one tournament whose fetch returned d
PostProcess(t, d, check_closing, check_filling, tnow) ==
    LET t1 == Update(t, d)
        closing == ClosingSoon(check_closing, d, tnow)
        t2 == IF closing THEN [t1 EXCEPT !.registration_closing_sent = TRUE] ELSE t1
        capacity == EffectiveCapacity(d, t2)
        registrants == EffectiveRegistrants(d, t2)
        filling == check_filling /\ IsFillingUp(registrants, capacity)
        t3 == IF filling
              THEN [t2 EXCEPT !.registrants = registrants, !.capacity = capacity,
                              !.registration_filling_sent = TRUE]
              ELSE t2
    IN  [tournament |-> t3, closing |-> closing, filling |-> filling]

\* (variant: an exception ends the loop over the batch)
NextTaskAbort(jj, failed) == IF failed THEN Len(tasks) + 1 ELSE jj + 1
\* the loop of line 106 goes on to the next task, also after an exception
NextTask(jj, failed) == jj + 1

\* (variant: the coroutines are started as tasks when created, without the gate)
CanEnterEager(k) == TRUE
\* a coroutine of the batch starts when the loop awaits it (after the sleep
\* between batches) and passes "async with self.semaphore" when a slot is free
CanEnter(k) == clock >= sleep_until /\ k = j /\ semaphore > 0

\* (variant: the slot is given back only when the fetch returned a result)
ReleaseOnReturn(d) == IF d.kind = "raise" THEN semaphore ELSE semaphore + 1
\* "async with self.semaphore" gives the slot back on every exit, line 41
Release(d) == semaphore + 1

\* (variant: no sleep between the batches)
BatchDelayNone(ii) == 0
\* lines 102-103: asyncio.sleep(2.0) before every batch but the first
BatchDelay(ii) == IF ii > 0 THEN 2 ELSE 0

InFlight == {k \in 1..Len(tasks) : tasks[k].st \in {"submitted", "limiting", "fetching"}}
Running == {k \in 1..Len(tasks) : tasks[k].st \in {"limiting", "fetching"}}

\* ------------------------------------------------- RateLimiter.wait_if_needed
\* (variant: the comparison is inverted)
WaitTimeInverted(elapsed) == IF elapsed > min_interval THEN min_interval - elapsed ELSE 0
WaitTime(elapsed) == IF elapsed < min_interval THEN min_interval - elapsed ELSE 0

\* ------------------------------------------------------------ check_tournaments
Tag(cat, s) == [k \in 1..Len(s) |-> <<cat, s[k]>>]
Queue == Tag("new", new_tournaments) \o Tag("opened", registration_opened)
         \o Tag("closing", closing_soon) \o Tag("filling", filling_up)

NoPrev == [listing |-> <<>>, results |-> <<>>, now |-> 0, saved |-> FALSE]

\* ---------------------------------------------------------------- the state
Start(scenarios) ==
    /\ scenario \in scenarios
    /\ now \in StartNows(scenario)
    /\ s3 \in InitSnapshots(scenario)
    /\ clock = 0
    /\ cycle = 0
    /\ pc = "idle"
    /\ tournaments = <<>>
    /\ saved_tournaments = <<>>
    /\ new_tournaments = <<>>
    /\ registration_opened = <<>>
    /\ closing_soon = <<>>
    /\ filling_up = <<>>
    /\ eligible_tournaments = <<>>
    /\ i = 0
    /\ tasks = <<>>
    /\ j = 0
    /\ sleep_until = 0
    /\ semaphore = max_concurrent
    /\ last_request_time = 0
    /\ n = 0
    /\ sent = <<>>
    /\ listing = <<>>
    /\ results = <<>>
    /\ should_check = <<>>
    /\ prev = NoPrev
    /\ save_calls = <<>>
    /\ invoked = <<>>
    /\ prev_permit = 0
    /\ closing_seen = {}
    /\ filling_seen = {}

limiter == <<last_request_time, prev_permit>>
store == <<s3, prev, closing_seen, filling_seen, save_calls>>
diffed == <<saved_tournaments, new_tournaments, registration_opened,
            eligible_tournaments, should_check>>
marked == <<tournaments, closing_soon, filling_up>>
batch == <<i, j, sleep_until>>

\* (variant: the empty list is not checked for)
AfterFetchUnchecked(l) == "load"
\* lines 816-818: "if not tournaments: return"
AfterFetch(l) == IF l = <<>> THEN "idle" ELSE "load"

\* check_tournaments, lines 808-818: the task loop starts an iteration and the
\* lister returns l; an empty list ends the iteration
FetchTournaments(l) ==
    /\ pc = "idle"
    /\ cycle < MaxCycles
    /\ l \in Listings(scenario, cycle)
    /\ cycle' = cycle + 1
    /\ clock' = (cycle + 1) * CyclePeriod
    /\ \E t \in now..MaxNow : now' = t
    /\ listing' = l
    /\ tournaments' = l
    /\ results' = [k \in 1..Len(l) |-> Unfetched]
    /\ invoked' = [k \in 1..Len(l) |-> 0]
    /\ saved_tournaments' = <<>>
    /\ new_tournaments' = <<>>
    /\ registration_opened' = <<>>
    /\ closing_soon' = <<>>
    /\ filling_up' = <<>>
    /\ eligible_tournaments' = <<>>
    /\ should_check' = <<>>
    /\ tasks' = <<>>
    /\ i' = 0 /\ j' = 0 /\ n' = 0
    /\ sent' = <<>>
    /\ pc' = AfterFetch(l)
    /\ prev_permit' = 0
    /\ save_calls' = <<>>
    /\ UNCHANGED <<scenario, sleep_until, semaphore, last_request_time, s3, prev,
                   closing_seen, filling_seen>>

\* save_tournaments_async, lines 733-783, and enrich_tournaments, lines 60-89:
\* the snapshot is loaded (found |-> the object was read; otherwise NoSuchKey or
\* another ClientError, both of which return []), the new tournaments and the
\* opened registrations are computed, the flags are seeded and the eligible
\* tournaments are picked
LoadTournaments(found) ==
    /\ pc = "load"
    /\ LET saved == IF found /\ s3.exists THEN s3.body ELSE <<>>
           seeded == [k \in 1..Len(tournaments) |-> SeedFlags(tournaments[k], saved)]
           eligible == EligibleTournaments(seeded, now)
       IN  /\ saved_tournaments' = saved
           /\ new_tournaments' = NewTournaments(tournaments, saved)
           /\ tournaments' = seeded
           /\ registration_opened' = RegistrationOpened(seeded, saved)
           /\ should_check' = ShouldCheck(seeded, now)
           /\ eligible_tournaments' = eligible
           /\ pc' = IF eligible = <<>> THEN "save" ELSE "batch"
    /\ semaphore' = max_concurrent
    /\ i' = 0
    /\ UNCHANGED <<scenario, now, clock, cycle, closing_soon, filling_up, tasks, j,
                   sleep_until, n, sent, listing, results, invoked, limiter, store>>

\* load_tournaments_from_s3 raises something that is no ClientError: the
\* exception reaches the handler of check_tournaments, line 906
LoadRaises ==
    /\ pc = "load"
    /\ pc' = "idle"
    /\ UNCHANGED <<scenario, now, clock, cycle, diffed, marked, tasks, batch,
                   semaphore, n, sent, listing, results, invoked, limiter, store>>

\* lines 93-103: the coroutines of one batch are created, and the loop sleeps
\* 2.0 seconds before every batch but the first
DispatchBatch ==
    /\ pc = "batch"
    /\ LET b == SubSeq(eligible_tournaments, i + 1,
                       Min(i + batch_size, Len(eligible_tournaments)))
       IN  tasks' = [k \in 1..Len(b) |->
                        [tournament |-> b[k][1], check_closing |-> b[k][2],
                         check_filling |-> b[k][3], st |-> "created", wake |-> 0,
                         details |-> Unfetched]]
    /\ sleep_until' = clock + BatchDelay(i)
    /\ j' = 1
    /\ pc' = "await"
    /\ UNCHANGED <<scenario, now, clock, cycle, diffed, marked, i, semaphore, n,
                   sent, listing, results, invoked, limiter, store>>

\* get_tournament_details, lines 42-47: the semaphore is taken and the fetch is
\* handed to the executor
Enter(k) ==
    /\ pc = "await"
    /\ k \in 1..Len(tasks)
    /\ tasks[k].st = "created"
    /\ CanEnter(k)
    /\ semaphore' = semaphore - 1
    /\ tasks' = [tasks EXCEPT ![k].st = "submitted"]
    /\ UNCHANGED <<scenario, now, clock, cycle, pc, diffed, marked, batch, n, sent,
                   listing, results, invoked, limiter, store>>

\* wait_if_needed, lines 37-43, in a worker thread of the pool: the time is
\* read, and the thread sleeps for wait_time
WaitIfNeeded(k) ==
    /\ k \in 1..Len(tasks)
    /\ tasks[k].st = "submitted"
    /\ Cardinality(Running) < max_workers
    /\ LET current_time == clock
           elapsed == current_time - last_request_time
       IN  tasks' = [tasks EXCEPT ![k].st = "limiting",
                                  ![k].wake = current_time + WaitTime(elapsed)]
    /\ invoked' = [invoked EXCEPT ![tasks[k].tournament] = @ + 1]
    /\ UNCHANGED <<scenario, now, clock, cycle, pc, diffed, marked, batch,
                   semaphore, n, sent, listing, results, limiter, store>>

\* wait_if_needed, line 45: the sleep is over, the request is permitted
Permit(k) ==
    /\ k \in 1..Len(tasks)
    /\ tasks[k].st = "limiting"
    /\ clock >= tasks[k].wake
    /\ last_request_time' = clock
    /\ prev_permit' = last_request_time
    /\ tasks' = [tasks EXCEPT ![k].st = "fetching", ![k].wake = clock + 1]
    /\ UNCHANGED <<scenario, now, clock, cycle, pc, diffed, marked, batch,
                   semaphore, n, sent, listing, results, invoked, store>>

\* fetch_registration_details returns d (a parsed page comes after the sleep of
\* line 40), or the call in the executor raises; the semaphore is released
FetchReturn(k, d) ==
    /\ k \in 1..Len(tasks)
    /\ tasks[k].st = "fetching"
    /\ d \in Outcomes(scenario, tournaments[tasks[k].tournament])
    /\ (d.kind = "ok" /\ d # Neutral) => clock >= tasks[k].wake
    /\ tasks' = [tasks EXCEPT ![k].st = "done", ![k].wake = 0, ![k].details = d]
    /\ results' = [results EXCEPT ![tasks[k].tournament] = d]
    /\ semaphore' = Release(d)
    /\ UNCHANGED <<scenario, now, clock, cycle, pc, diffed, marked, batch, n, sent,
                   listing, invoked, limiter, store>>

\* lines 106-138 for the awaited task, then the next task, the next batch or
\* the end of enrich_tournaments
Process ==
    /\ pc = "await"
    /\ j \in 1..Len(tasks)
    /\ tasks[j].st = "done"
    /\ LET task == tasks[j]
           k == task.tournament
           failed == task.details.kind = "raise"
           r == PostProcess(tournaments[k], task.details, task.check_closing,
                            task.check_filling, now)
           jn == NextTask(j, failed)
           in == i + batch_size
       IN  /\ tournaments' = IF failed THEN tournaments
                             ELSE [tournaments EXCEPT ![k] = r.tournament]
           /\ closing_soon' = IF ~ failed /\ r.closing
                              THEN Append(closing_soon, k) ELSE closing_soon
           /\ filling_up' = IF ~ failed /\ r.filling
                            THEN Append(filling_up, k) ELSE filling_up
           /\ j' = jn
           /\ i' = IF jn <= Len(tasks) THEN i ELSE in
           /\ pc' = IF jn <= Len(tasks) THEN "await"
                    ELSE IF in < Len(eligible_tournaments) THEN "batch" ELSE "save"
    /\ UNCHANGED <<scenario, now, clock, cycle, diffed, tasks, sleep_until,
                   semaphore, n, sent, listing, results, invoked, limiter, store>>

\* time passes while a sleep or a request is under way
Tick ==
    /\ \/ pc = "await" /\ clock < sleep_until
       \/ \E k \in Running : clock < tasks[k].wake + Lag(scenario)
    /\ clock' = clock + 1
    /\ UNCHANGED <<scenario, now, cycle, pc, diffed, marked, tasks, batch,
                   semaphore, n, sent, listing, results, invoked, limiter, store>>

EndOfCycle(saved) ==
    /\ prev' = [listing |-> listing, results |-> results, now |-> now, saved |-> saved]
    /\ closing_seen' = closing_seen \cup
          {Identity(tournaments[k]) : k \in {x \in 1..Len(tournaments) :
                                        tournaments[x].registration_closing_sent}}
    /\ filling_seen' = filling_seen \cup
          {Identity(tournaments[k]) : k \in {x \in 1..Len(tournaments) :
                                        tournaments[x].registration_filling_sent}}

\* save_tournaments_to_s3 and line 788: an empty list is not saved (lines
\* 708-710); otherwise the list is written (ok) or put_object raises a
\* ClientError, which is logged; either way the four lists are returned
SaveTournaments(ok) ==
    /\ pc = "save"
    /\ s3' = IF ok /\ tournaments # <<>>
             THEN [exists |-> TRUE, body |-> Serialize(tournaments)] ELSE s3
    /\ save_calls' = IF tournaments # <<>>
                     THEN Append(save_calls, Serialize(tournaments)) ELSE save_calls
    /\ EndOfCycle(ok /\ tournaments # <<>>)
    /\ pc' = "notify"
    /\ UNCHANGED <<scenario, now, clock, cycle, diffed, marked, tasks, batch,
                   semaphore, n, sent, listing, results, invoked, limiter>>

\* put_object raises something that is no ClientError: the handler of line 906
SaveRaises ==
    /\ pc = "save"
    /\ tournaments # <<>>
    /\ save_calls' = Append(save_calls, Serialize(tournaments))
    /\ EndOfCycle(FALSE)
    /\ pc' = "idle"
    /\ UNCHANGED <<scenario, now, clock, cycle, s3, diffed, marked, tasks, batch,
                   semaphore, n, sent, listing, results, invoked, limiter>>

\* lines 828-831: client.get_channel; without a channel the iteration returns
GetChannel(found) ==
    /\ pc = "notify"
    /\ pc' = IF found /\ Queue # <<>> THEN "send" ELSE "idle"
    /\ n' = 1
    /\ UNCHANGED <<scenario, now, clock, cycle, diffed, marked, tasks, batch,
                   semaphore, sent, listing, results, invoked, limiter, store>>

\* lines 834-898: one embed is sent
SendEmbed ==
    /\ pc = "send"
    /\ sent' = Append(sent, Queue[n])
    /\ n' = n + 1
    /\ pc' = IF n + 1 <= Len(Queue) THEN "send" ELSE "idle"
    /\ UNCHANGED <<scenario, now, clock, cycle, diffed, marked, tasks, batch,
                   semaphore, listing, results, invoked, limiter, store>>

\* channel.send raises: the handler of line 906 ends the iteration
SendRaises ==
    /\ pc = "send"
    /\ pc' = "idle"
    /\ UNCHANGED <<scenario, now, clock, cycle, diffed, marked, tasks, batch,
                   semaphore, n, sent, listing, results, invoked, limiter, store>>

Next ==
    \/ \E l \in Listings(scenario, cycle) : FetchTournaments(l)
    \/ \E found \in BOOLEAN : LoadTournaments(found)
    \/ LoadRaises
    \/ DispatchBatch
    \/ \E k \in 1..Len(tasks) : Enter(k)
    \/ \E k \in 1..Len(tasks) : WaitIfNeeded(k)
    \/ \E k \in 1..Len(tasks) : Permit(k)
    \/ \E k \in 1..Len(tasks), d \in AllOutcomes : FetchReturn(k, d)
    \/ Process
    \/ Tick
    \/ \E ok \in BOOLEAN : SaveTournaments(ok)
    \/ SaveRaises
    \/ \E found \in BOOLEAN : GetChannel(found)
    \/ SendEmbed
    \/ SendRaises

Init == Start({"sched", "cycles", "item"})
InitSched == Start({"sched"})
InitCycles == Start({"cycles"})
InitItem == Start({"item"})

Spec == Init /\ [][Next]_vars
SpecSched == InitSched /\ [][Next]_vars
SpecCycles == InitCycles /\ [][Next]_vars
SpecItem == InitItem /\ [][Next]_vars

\* ------------------------------------- wait_if_needed under concurrent callers
\* The two worker threads of thread_pool each call fetch_registration_details,
\* and so rate_limiter.wait_if_needed, over and over, with nothing but the
\* limiter between them.
Thread(k) == [tournament |-> k, check_closing |-> FALSE, check_filling |-> FALSE,
              st |-> "submitted", wake |-> 0, details |-> Unfetched]

InitLimiter ==
    /\ scenario = "limiter"
    /\ now = 0
    /\ s3 = NoSnapshot
    /\ clock \in 0..min_interval
    /\ cycle = 0
    /\ pc = "idle"
    /\ tournaments = <<>>
    /\ saved_tournaments = <<>>
    /\ new_tournaments = <<>>
    /\ registration_opened = <<>>
    /\ closing_soon = <<>>
    /\ filling_up = <<>>
    /\ eligible_tournaments = <<>>
    /\ i = 0
    /\ tasks = [k \in 1..max_workers |-> Thread(k)]
    /\ j = 0
    /\ sleep_until = 0
    /\ semaphore = max_concurrent
    /\ last_request_time = 0
    /\ n = 0
    /\ sent = <<>>
    /\ listing = <<>>
    /\ results = <<>>
    /\ should_check = <<>>
    /\ prev = NoPrev
    /\ save_calls = <<>>
    /\ invoked = [k \in 1..max_workers |-> 0]
    /\ prev_permit = 0
    /\ closing_seen = {}
    /\ filling_seen = {}

\* the request of thread k is over and the thread takes the next call
CallAgain(k) ==
    /\ k \in 1..Len(tasks)
    /\ tasks[k].st = "fetching"
    /\ clock < MaxClock
    /\ tasks' = [tasks EXCEPT ![k].st = "submitted", ![k].wake = 0]
    /\ UNCHANGED <<scenario, now, clock, cycle, pc, diffed, marked, batch,
                   semaphore, n, sent, listing, results, invoked, limiter, store>>

NextLimiter ==
    \/ \E k \in 1..Len(tasks) : WaitIfNeeded(k)
    \/ \E k \in 1..Len(tasks) : Permit(k)
    \/ \E k \in 1..Len(tasks) : CallAgain(k)
    \/ Tick

SpecLimiter == InitLimiter /\ [][NextLimiter]_vars

\* ================================================================== claims
Count(s, x) == Cardinality({p \in 1..Len(s) : s[p] = x})
In(k, s) == \E p \in 1..Len(s) : s[p] = k
\* the tournament as enrich_tournaments received it
Seeded(k) == SeedFlags(listing[k], saved_tournaments)
\* what lines 109-135 make of tournament k and of its own detail result
Expected(k) == PostProcess(Seeded(k), results[k], should_check[k].closing,
                           should_check[k].filling, now)
Enriched == pc \in {"save", "notify", "send"}
EligibleIndices == {eligible_tournaments[e][1] : e \in 1..Len(eligible_tournaments)}

\* C1: with max_concurrent = 2, at most 2 detail fetches have started and not
\* yet returned, in every state of a cycle.
C1_ConcurrencyBound == Cardinality(InFlight) <= max_concurrent
\* a batch of more than two eligible tournaments, the third being fetched
C1_Witness ==
    /\ Len(tasks) > max_concurrent
    /\ j > max_concurrent
    /\ \E k \in InFlight : tasks[k].st = "fetching"

\* C2: with requests_per_minute = 10, a detail fetch is permitted by
\* wait_if_needed at least 6 seconds after the one permitted before it.
C2_RateSpacing ==
    prev_permit # 0 => last_request_time - prev_permit >= min_interval
\* the first fetch of the second batch is permitted exactly 6 seconds after the
\* last fetch of the first batch
C2_Witness ==
    /\ i = batch_size
    /\ pc = "await" /\ j = 1 /\ tasks[1].st = "fetching"
    /\ prev_permit # 0
    /\ last_request_time - prev_permit = min_interval

\* C3: a second cycle with the same candidate list, the same detail results and
\* the same clock as a first cycle whose save succeeded returns four empty lists.
C3_Idempotent ==
    LET SameDetails ==
            \A k \in 1..Len(results) :
                (results[k].kind # "unfetched" /\ prev.results[k].kind # "unfetched")
                    => results[k] = prev.results[k]
    IN  (pc = "save" /\ prev.saved /\ listing = prev.listing /\ now = prev.now
         /\ SameDetails)
        => /\ new_tournaments = <<>>
           /\ registration_opened = <<>>
           /\ closing_soon = <<>>
           /\ filling_up = <<>>

\* C4: a notified flag that was true for an identity at the end of a cycle is
\* true for it at the end of every later cycle.
C4_FlagsMonotone ==
    pc = "save" =>
        \A k \in 1..Len(tournaments) :
            /\ Identity(tournaments[k]) \in closing_seen
                  => tournaments[k].registration_closing_sent
            /\ Identity(tournaments[k]) \in filling_seen
                  => tournaments[k].registration_filling_sent

\* C5: every entry of the four lists a cycle computed has been sent to the
\* channel exactly once when the cycle is over.
C5_ExactlyOnce ==
    (pc = "idle" /\ cycle > 0) =>
        \A p \in 1..Len(Queue) : Count(sent, Queue[p]) = 1

\* C6: when the detail fetch of one eligible tournament raises, every other
\* eligible tournament has been fetched and processed from its own result when
\* the enrichment is over, and the cycle has gone on to its save.
C6_FailureIsolated ==
    (pc \notin {"load", "batch", "await"} /\ \E f \in 1..Len(results) : results[f].kind = "raise")
    => \A k \in EligibleIndices :
          /\ results[k].kind # "unfetched"
          /\ results[k].kind = "ok" =>
                /\ tournaments[k] = Expected(k).tournament
                /\ In(k, closing_soon) <=> Expected(k).closing
                /\ In(k, filling_up) <=> Expected(k).filling
\* the second tournament's fetch raised; the third (same batch) and the sixth
\* (next batch) are marked, and the lists are about to be returned
C6_Witness ==
    /\ pc = "notify"
    /\ Len(eligible_tournaments) > batch_size
    /\ results[2].kind = "raise"
    /\ In(3, filling_up)
    /\ In(batch_size + 1, closing_soon)

\* C7: a tournament whose detail fetch raised or gave the neutral result is
\* persisted with the registrants, capacity and flags it had before the fetch,
\* and is in neither closing_soon nor filling_up.
C7_FailedFetchLeavesItem ==
    pc = "save" =>
        \A k \in EligibleIndices :
            (results[k] = Raised \/ results[k] = Neutral) =>
                /\ tournaments[k].registrants = Seeded(k).registrants
                /\ tournaments[k].capacity = Seeded(k).capacity
                /\ tournaments[k].registration_closing_sent
                      = Seeded(k).registration_closing_sent
                /\ tournaments[k].registration_filling_sent
                      = Seeded(k).registration_filling_sent
                /\ ~ In(k, closing_soon)
                /\ ~ In(k, filling_up)

C9_ListingCapacityFallback ==
    pc = "save" =>
        \A k \in EligibleIndices :
            (/\ Seeded(k).registrants = 40 /\ Seeded(k).capacity = 50
             /\ ~ Seeded(k).registration_filling_sent
             /\ results[k].kind = "ok"
             /\ results[k].registrants = 45 /\ results[k].capacity = 0)
            => /\ In(k, filling_up)
               /\ tournaments[k].registrants = 45
               /\ tournaments[k].capacity = 50
               /\ tournaments[k].registration_filling_sent

\* C10 (as claimed): for a tournament not yet notified of closing, the closing
\* check is wanted all day on the day 14 calendar days before its date, and not
\* wanted all day on the day 15 calendar days before.
C10_CalendarBoundary ==
    should_check # <<>> =>
        \A k \in 1..Len(listing) :
            (listing[k].date # NA /\ ~ Seeded(k).registration_closing_sent) =>
                /\ DaysCalendar(listing[k].date, now) = 14 => should_check[k].closing
                /\ DaysCalendar(listing[k].date, now) = 15 => ~ should_check[k].closing
\* C10 (amended): the closing check is wanted all day on the day 14 calendar
\* days before the date; on the day 15 calendar days before it is not wanted at
\* midnight and wanted at every later time; on the day 16 calendar days before
\* it is not wanted.
C10_WholeDaysBoundary ==
    should_check # <<>> =>
        \A k \in 1..Len(listing) :
            (listing[k].date # NA /\ ~ Seeded(k).registration_closing_sent) =>
                /\ DaysCalendar(listing[k].date, now) = 14 => should_check[k].closing
                /\ DaysCalendar(listing[k].date, now) = 15
                      => (should_check[k].closing <=> now % 2 # 0)
                /\ DaysCalendar(listing[k].date, now) = 16 => ~ should_check[k].closing
\* after midnight on the day 15 calendar days before the date, the check is wanted
C10_Witness ==
    /\ should_check # <<>>
    /\ \E k \in 1..Len(listing) :
          /\ listing[k].date # NA
          /\ ~ Seeded(k).registration_closing_sent
          /\ DaysCalendar(listing[k].date, now) = 15
          /\ now % 2 # 0
          /\ should_check[k].closing

\* the four lists have been returned to check_tournaments (line 788)
Returned == pc \in {"notify", "send"}

\* C11: a tournament with should_check_filling true whose details were fetched
\* is in filling_up iff effective_registrants * 100 >= 75 * effective_capacity,
\* where effective_capacity is the detail capacity, else the listing capacity,
\* else DEFAULT_CAPACITY, and effective_registrants the larger of the detail
\* and the listing registrants.
C11_FillingBoundary ==
    pc = "save" =>
        \A k \in EligibleIndices :
            (should_check[k].filling /\ results[k].kind = "ok") =>
                LET d == results[k]
                    t == Seeded(k)
                    effective_capacity ==
                        IF d.capacity # 0 THEN d.capacity
                        ELSE IF t.capacity # 0 THEN t.capacity ELSE DEFAULT_CAPACITY
                    effective_registrants == Max(d.registrants, t.registrants)
                IN  In(k, filling_up)
                        <=> effective_registrants * 100
                                >= FILLING_THRESHOLD * effective_capacity

\* C12: the new list a cycle returns holds exactly the candidates whose
\* (name, date, location) is that of no tournament of the loaded snapshot, in
\* the order of the candidate list.
C12_NewList ==
    Returned =>
        /\ \A k \in 1..Len(listing) :
              In(k, new_tournaments)
                  <=> ~ \E m \in 1..Len(saved_tournaments) :
                          Identity(listing[k]) = Identity(saved_tournaments[m])
        /\ \A p, q \in 1..Len(new_tournaments) :
              p < q => new_tournaments[p] < new_tournaments[q]
\* a candidate that shares its name, but not its date, with a tournament of the
\* snapshot is returned as new
C12_Witness ==
    /\ Returned
    /\ saved_tournaments # <<>>
    /\ new_tournaments = <<1>>
    /\ listing[1].name = saved_tournaments[1].name
    /\ listing[1].date # saved_tournaments[1].date

\* C13: the registration_opened list a cycle returns holds exactly the
\* candidates with a tournament of equal identity in the loaded snapshot whose
\* registration_open was false while the candidate's is true; a candidate
\* without a match is never in it.
C13_RegistrationOpened ==
    Returned =>
        /\ \A k \in 1..Len(listing) :
              In(k, registration_opened)
                  <=> /\ listing[k].registration_open
                      /\ \E m \in 1..Len(saved_tournaments) :
                            /\ Identity(listing[k]) = Identity(saved_tournaments[m])
                            /\ ~ saved_tournaments[m].registration_open
        /\ \A p, q \in 1..Len(registration_opened) :
              p < q => registration_opened[p] < registration_opened[q]
\* of two candidates that were both in the snapshot, the second has opened
C13_Witness ==
    /\ Returned
    /\ Len(listing) = 2
    /\ new_tournaments = <<>>
    /\ registration_opened = <<2>>

\* C14: a cycle with a non-empty candidate list hands the store exactly one
\* body: none before the four lists are computed, one when they are returned,
\* and it holds every candidate with its values after the enrichment.
C14_SingleSave ==
    /\ Len(save_calls) <= 1
    /\ pc \in {"load", "batch", "await", "save"} => save_calls = <<>>
    /\ Returned =>
          /\ Len(save_calls) = 1
          /\ Len(save_calls[1]) = Len(listing)
          /\ \A k \in 1..Len(listing) :
                LET body == save_calls[1][k]
                    t == tournaments[k]
                IN  /\ Identity(body) = Identity(listing[k])
                    /\ body.registrants = t.registrants
                    /\ body.capacity = t.capacity
                    /\ body.closing_text = t.closing_text
                    /\ body.registration_open = t.registration_open
                    /\ body.registration_closing_sent = t.registration_closing_sent
                    /\ body.registration_filling_sent = t.registration_filling_sent
\* two candidates, the first known and marked as filling up in this cycle, the
\* second new: one body has been written when the lists are returned
C14_Witness ==
    /\ Returned
    /\ Len(listing) = 2
    /\ new_tournaments = <<2>>
    /\ In(1, filling_up)
    /\ Len(save_calls) = 1

\* C15: after a cycle whose save succeeded the stored snapshot holds exactly
\* the identities of that cycle's candidate list, so a tournament of the
\* earlier snapshot that is no longer listed is gone with its flags.
C15_SnapshotReplaced ==
    (Returned /\ prev.saved) =>
        /\ s3.exists
        /\ Len(s3.body) = Len(listing)
        /\ \A k \in 1..Len(listing) : Identity(s3.body[k]) = Identity(listing[k])
\* a tournament of the loaded snapshot with a flag set is not listed any more
C15_Witness ==
    /\ Returned /\ prev.saved
    /\ \E m \in 1..Len(saved_tournaments) :
          /\ saved_tournaments[m].registration_closing_sent
          /\ \A k \in 1..Len(listing) :
                Identity(listing[k]) # Identity(saved_tournaments[m])

\* C16: the step of a cycle whose candidate list is empty ends the cycle at
\* once: nothing is handed to the store, no detail is fetched, nothing is sent
\* and the stored snapshot is as before.
C16_EmptyListNoOp ==
    [][(cycle' = cycle + 1 /\ listing' = <<>>) =>
          /\ pc' = "idle"
          /\ s3' = s3
          /\ save_calls' = <<>>
          /\ sent' = <<>>
          /\ results' = <<>>
          /\ tasks' = <<>>
          /\ last_request_time' = last_request_time]_vars
\* a second cycle with an empty candidate list, after a first one that saved
C16_Witness ==
    /\ pc = "idle"
    /\ cycle > 1
    /\ listing = <<>>
    /\ s3.exists
    /\ prev.saved

\* C17: a cycle does not return to check_tournaments the way a successful one
\* does when its save failed: the failure is told to the caller.
C17_SaveFailureSurfaced == Returned => prev.saved

\* C18: the load gives the empty list only if nothing is stored; a candidate
\* whose identity is in the stored snapshot is not new and is seeded with the
\* stored flags.
C18_LoadEmptyOnlyIfNone ==
    pc \in {"batch", "await", "save"} =>
        /\ saved_tournaments = <<>> => ~ s3.exists
        /\ \A k \in 1..Len(listing) : \A m \in 1..Len(s3.body) :
              Identity(listing[k]) = Identity(s3.body[m]) =>
                  /\ ~ In(k, new_tournaments)
                  /\ Seeded(k).registration_closing_sent
                        = s3.body[m].registration_closing_sent
                  /\ Seeded(k).registration_filling_sent
                        = s3.body[m].registration_filling_sent

\* C19: when a closing_soon or filling_up embed has been sent for a tournament,
\* its flag is true and a body carrying the flag has been handed to the store.
C19_FlagBeforeEmission ==
    \A p \in 1..Len(sent) :
        LET cat == sent[p][1]
            k == sent[p][2]
        IN  /\ cat = "closing" =>
                  /\ tournaments[k].registration_closing_sent
                  /\ save_calls # <<>>
                  /\ save_calls[1][k].registration_closing_sent
            /\ cat = "filling" =>
                  /\ tournaments[k].registration_filling_sent
                  /\ save_calls # <<>>
                  /\ save_calls[1][k].registration_filling_sent
\* both embeds of a tournament have been sent after a save that failed
C19_Witness ==
    /\ ~ prev.saved
    /\ \E p, q \in 1..Len(sent) :
          /\ sent[p][1] = "closing" /\ sent[q][1] = "filling"
          /\ sent[p][2] = sent[q][2]

\* C20: with two threads calling wait_if_needed on the same limiter in any
\* interleaving, no call is permitted less than min_interval after the call
\* permitted before it.
C20_ConcurrentSpacing ==
    ~ (prev_permit # 0 /\ last_request_time < prev_permit + min_interval)

\* save_tournaments_async has loaded the snapshot and enrich_tournaments has
\* picked the eligible tournaments of this cycle
Picked == pc \in {"batch", "await", "save", "notify", "send"}
\* candidate k matches the tournament m of the loaded snapshot
Matches(k, m) == Identity(listing[k]) = Identity(saved_tournaments[m])

\* C21: a tournament whose registration_closing_sent (registration_filling_sent)
\* is true in the loaded snapshot is never in closing_soon (filling_up) of the
\* cycle, whatever its detail fetch returns.
C21_StickyFlags ==
    Picked =>
        \A k \in 1..Len(listing) : \A m \in 1..Len(saved_tournaments) :
            Matches(k, m) =>
                /\ saved_tournaments[m].registration_closing_sent
                      => (~ should_check[k].closing /\ ~ In(k, closing_soon))
                /\ saved_tournaments[m].registration_filling_sent
                      => (~ should_check[k].filling /\ ~ In(k, filling_up))
\* a tournament notified of closing earlier is fetched again for the filling
\* check, its registration closes in less than 7 days, and it is not in
\* closing_soon
C21_Witness ==
    /\ Enriched
    /\ \E m \in 1..Len(saved_tournaments) :
          /\ Matches(1, m)
          /\ saved_tournaments[m].registration_closing_sent
    /\ results[1].kind = "ok"
    /\ results[1].closing_date # None
    /\ DaysUntil(results[1].closing_date, now) < 7
    /\ In(1, filling_up)
    /\ ~ In(1, closing_soon)

\* C22: after the enrichment the registrants of a tournament are never lower
\* than the registrants of its listing entry.
C22_RegistrantsNeverLower ==
    Enriched =>
        \A k \in 1..Len(listing) :
            tournaments[k].registrants >= listing[k].registrants

\* C23: a tournament is picked for a detail fetch, and fetched, iff its url is
\* not "N/A", its registration is open, and it needs the closing check (date
\* known, whole days until the date <= 14, closing flag false) or the filling
\* check (filling flag false, registrants at least 50% of capacity or 72).
C23_Eligibility ==
    Picked =>
        \A k \in 1..Len(listing) :
            LET t == listing[k]
                needs_closing_check ==
                    /\ t.date # NA
                    /\ (2 * t.date - now) \div 2 <= 14
                    /\ ~ Seeded(k).registration_closing_sent
                needs_filling_check ==
                    /\ ~ Seeded(k).registration_filling_sent
                    /\ t.registrants * 100
                          >= 50 * (IF t.capacity # 0 THEN t.capacity ELSE DEFAULT_CAPACITY)
                eligible ==
                    /\ t.url # "N/A"
                    /\ t.registration_open
                    /\ (needs_closing_check \/ needs_filling_check)
            IN  /\ k \in EligibleIndices <=> eligible
                /\ Enriched => (results[k].kind # "unfetched" <=> eligible)
\* a tournament with a detail page that needs the closing check is not fetched
\* because its registration is not open
C23_Witness ==
    /\ Enriched
    /\ listing[1].url # "N/A"
    /\ ~ listing[1].registration_open
    /\ should_check[1].closing
    /\ results[1].kind = "unfetched"

\* C24: in a batch of at least two tournaments the detail fetch of the second
\* can start while the fetch of the first is under way and a slot of the
\* semaphore is free.
C24_BatchConcurrent ==
    (/\ pc = "await"
     /\ Len(tasks) >= 2
     /\ 1 \in InFlight
     /\ tasks[2].st = "created"
     /\ semaphore > 0
     /\ clock >= sleep_until)
    => CanEnter(2)

\* C25: the batches are the consecutive slices of at most batch_size eligible
\* tournaments, in order; the first batch starts without delay, and no fetch
\* of a later batch starts before the 2 seconds of sleep that follow the
\* batch before it are over.
C25_Batches ==
    /\ pc = "await" =>
          /\ i % batch_size = 0
          /\ Len(tasks) = Min(batch_size, Len(eligible_tournaments) - i)
          /\ \A k \in 1..Len(tasks) :
                tasks[k].tournament = eligible_tournaments[i + k][1]
          /\ i = 0 => clock >= sleep_until
          /\ InFlight # {} => clock >= sleep_until
    /\ (pc = "await" /\ i > 0 /\ j = 1 /\ tasks[1].st = "submitted")
          => clock >= last_request_time + 2
\* the first fetch of the second batch starts at the end of the sleep
C25_Witness ==
    /\ pc = "await"
    /\ i = batch_size
    /\ j = 1
    /\ tasks[1].st = "submitted"
    /\ clock = sleep_until
    /\ tasks[1].tournament = eligible_tournaments[batch_size + 1][1]

\* C26: the slot of the semaphore is given back when a fetch returns or
\* raises: the free slots and the fetches under way add up to max_concurrent,
\* the awaited coroutine finds a free slot, and all slots are free when
\* enrich_tournaments has returned.
C26_GateReleased ==
    /\ Picked => semaphore + Cardinality(InFlight) = max_concurrent
    /\ (pc = "await" /\ j \in 1..Len(tasks) /\ tasks[j].st = "created")
          => semaphore > 0
    /\ Enriched => semaphore = max_concurrent
\* a fetch raised and enrich_tournaments has returned
C26_Witness ==
    /\ Enriched
    /\ \E k \in 1..Len(results) : results[k].kind = "raise"
    /\ semaphore = max_concurrent

\* C27: an eligible tournament is in closing_soon, with its closing flag set in
\* this cycle, iff it needed the closing check, its detail result has a
\* closing date and the whole days until then are less than 7; with exactly 7
\* days left it is not.
C27_ClosingSoon ==
    Enriched =>
        \A k \in EligibleIndices :
            LET d == results[k]
                soon == /\ d.kind = "ok"
                        /\ should_check[k].closing
                        /\ d.closing_date # None
                        /\ (2 * d.closing_date - now) \div 2 < 7
            IN  /\ In(k, closing_soon) <=> soon
                /\ tournaments[k].registration_closing_sent
                      <=> (soon \/ Seeded(k).registration_closing_sent)
\* exactly 7 whole days are left: not in closing_soon, flag false
C27_Witness ==
    /\ Enriched
    /\ should_check[1].closing
    /\ results[1].kind = "ok"
    /\ results[1].closing_date # None
    /\ DaysUntil(results[1].closing_date, now) = 7
    /\ ~ In(1, closing_soon)
    /\ ~ tournaments[1].registration_closing_sent

\* the condition of line 88 for candidate k, from its listing entry and the
\* two checks of the eligibility loop
Selectable(k) ==
    /\ listing[k].url # "N/A"
    /\ listing[k].registration_open
    /\ (should_check[k].closing \/ should_check[k].filling)

\* C28: enrich_tournaments leaves a tournament that is not eligible as it
\* received it, and puts it in neither closing_soon nor filling_up.
C28_IneligibleUnchanged ==
    Enriched =>
        \A k \in 1..Len(listing) :
            ~ Selectable(k) =>
                /\ tournaments[k] = Seeded(k)
                /\ ~ In(k, closing_soon)
                /\ ~ In(k, filling_up)
\* a tournament without a detail page that would need the filling check
C28_Witness ==
    /\ Enriched
    /\ listing[1].url = "N/A"
    /\ listing[1].registration_open
    /\ should_check[1].filling
    /\ tournaments[1] = Seeded(1)

\* C29: in a cycle fetch_registration_details is called exactly once for each
\* eligible tournament, also when the call fails, and never for another one.
C29_FetchedOnce ==
    /\ \A k \in 1..Len(invoked) : invoked[k] <= 1
    /\ Enriched =>
          \A k \in 1..Len(listing) :
              invoked[k] = IF Selectable(k) THEN 1 ELSE 0
\* of two candidates the first was fetched once, and the fetch raised; the
\* second, not eligible, was not fetched
C29_Witness ==
    /\ Enriched
    /\ Len(listing) = 2
    /\ results[1].kind = "raise"
    /\ ~ Selectable(2)
    /\ invoked = <<1, 0>>

\* C30: at the end of a cycle a tournament is in closing_soon iff its closing
\* flag went from false to true in this cycle, in filling_up iff its filling
\* flag did, and it is at most once in each list.
C30_ListsMatchFlags ==
    Enriched =>
        \A k \in 1..Len(listing) :
            /\ In(k, closing_soon)
                  <=> (/\ ~ Seeded(k).registration_closing_sent
                       /\ tournaments[k].registration_closing_sent)
            /\ In(k, filling_up)
                  <=> (/\ ~ Seeded(k).registration_filling_sent
                       /\ tournaments[k].registration_filling_sent)
            /\ Count(closing_soon, k) <= 1
            /\ Count(filling_up, k) <= 1
\* a tournament notified of filling up earlier enters closing_soon only
C30_Witness ==
    /\ Enriched
    /\ Seeded(1).registration_filling_sent
    /\ ~ Seeded(1).registration_closing_sent
    /\ closing_soon = <<1>>
    /\ filling_up = <<>>
    /\ tournaments[1].registration_closing_sent
====
